---------------------------- MODULE Spec2Model ----------------------------
(***************************************************************************)
(* Model of the Cloud Spanner natural-language agent                       *)
(* (src/spanner_agent/agent.py): the SQL policy engine                     *)
(* (SpannerSecurityValidator.validate_query), the audited execution        *)
(* wrapper (SpannerAgent.execute_query), the derived read-only operations  *)
(* and the five tool functions exposed to the hosting runtime.             *)
(*                                                                         *)
(* Text is modelled character by character: a Python str is a sequence of  *)
(* one-character strings, so that upper(), strip(), the regular            *)
(* expressions and the f-strings are computed as the code computes them.   *)
(***************************************************************************)
EXTENDS Integers, Sequences, FiniteSets, TLC

VARIABLES
    read_only,      \* SpannerAgent.read_only      (SPANNER_READ_ONLY)
    max_rows,       \* SpannerAgent.max_rows       (SPANNER_MAX_ROWS)
    enable_audit,   \* SpannerAgent.enable_audit   (ENABLE_AUDIT_LOGGING)
    clock,          \* the wall clock read by datetime.utcnow()
    call,           \* the last operation invoked: its name and its inputs
    outcome,        \* what that operation did: returned a value or raised
    events          \* what that operation did to its collaborators, in order

vars == <<read_only, max_rows, enable_audit, clock, call, outcome, events>>

---------------------------------------------------------------------------
(* Bounds of the model.                                                    *)

\* longest text drawn for the policy engine, in fragments
MaxAtoms == 2
\* largest row cap drawn for SPANNER_MAX_ROWS
MaxRowsCap == 2
\* largest result set the database holds for one statement
MaxDbRows == 3
\* last instant of the wall clock
MaxClock == 1

---------------------------------------------------------------------------
(* Characters and Python's str methods.                                    *)

Lower ==
    <<"a","b","c","d","e","f","g","h","i","j","k","l","m",
      "n","o","p","q","r","s","t","u","v","w","x","y","z">>
Upper ==
    <<"A","B","C","D","E","F","G","H","I","J","K","L","M",
      "N","O","P","Q","R","S","T","U","V","W","X","Y","Z">>
Digits == <<"0","1","2","3","4","5","6","7","8","9">>

LowerChars == {Lower[i] : i \in 1..Len(Lower)}
WordChars ==
    LowerChars \cup {Upper[i] : i \in 1..Len(Upper)}
    \cup {Digits[i] : i \in 1..Len(Digits)} \cup {"_"}
SpaceChars == {" ", "\n", "\t", "\r"}

\* str.upper(), character by character
UpperOf ==
    [c \in LowerChars |-> Upper[CHOOSE i \in 1..Len(Lower) : Lower[i] = c]]

\* str.upper() on one character
UpperChar(c) == IF c \in LowerChars THEN UpperOf[c] ELSE c

\* str.upper()
upper(s) == [i \in 1..Len(s) |-> UpperChar(s[i])]

\* the regular-expression class \s, and the characters str.strip() removes
IsSpace(c) == c \in SpaceChars

\* the regular-expression class \w
IsWord(c) == c \in WordChars

\* the first position from i on that holds no whitespace (Len(s) + 1 if none)
RECURSIVE SkipSpaceRight(_, _)
SkipSpaceRight(s, i) ==
    IF i > Len(s) \/ ~IsSpace(s[i]) THEN i ELSE SkipSpaceRight(s, i + 1)

\* the last position up to i that holds no whitespace (0 if none)
RECURSIVE SkipSpaceLeft(_, _)
SkipSpaceLeft(s, i) ==
    IF i < 1 \/ ~IsSpace(s[i]) THEN i ELSE SkipSpaceLeft(s, i - 1)

\* str.strip()
strip(s) == SubSeq(s, SkipSpaceRight(s, 1), SkipSpaceLeft(s, Len(s)))

\* s[i:].startswith(lit), positions from 1
LitAt(s, i, lit) ==
    /\ i >= 1
    /\ i + Len(lit) - 1 <= Len(s)
    /\ \A k \in 1..Len(lit) : s[i + k - 1] = lit[k]

\* the same under re.IGNORECASE
LitAtNoCase(s, i, lit) ==
    /\ i >= 1
    /\ i + Len(lit) - 1 <= Len(s)
    /\ \A k \in 1..Len(lit) : UpperChar(s[i + k - 1]) = UpperChar(lit[k])

\* lit in s
Contains(s, lit) == \E i \in 1..(Len(s) + 1) : LitAt(s, i, lit)

\* str.count(lit): non-overlapping occurrences, scanning from the left
RECURSIVE CountFrom(_, _, _)
CountFrom(s, lit, i) ==
    LET found == {j \in i..(Len(s) - Len(lit) + 1) : LitAt(s, j, lit)}
    IN  IF found = {} THEN 0
        ELSE LET first == CHOOSE j \in found : \A k \in found : j <= k
             IN  1 + CountFrom(s, lit, first + Len(lit))

count(s, lit) == CountFrom(s, lit, 1)

\* str(n) for a small non-negative integer
RECURSIVE IntStr(_)
IntStr(n) ==
    IF n < 10 THEN <<Digits[n + 1]>>
    ELSE IntStr(n \div 10) \o <<Digits[(n % 10) + 1]>>

\* a run of n spaces
Spaces(n) == [i \in 1..n |-> " "]

---------------------------------------------------------------------------
(* SQL text handed to the agent.  A text is its characters followed by     *)
(* pad trailing spaces; the padding lets a text be longer than 10,000      *)
(* characters without spelling each of them out.                           *)

Sql(chars) == [body |-> chars, pad |-> 0]

\* len(sql)
len(sql) == Len(sql.body) + sql.pad

\* sql.upper().strip(): trailing padding is whitespace and is stripped
UpperStrip(sql) == strip(upper(sql.body))

\* the characters of the text, padding included
Raw(sql) == sql.body \o Spaces(sql.pad)

---------------------------------------------------------------------------
(* Regular-expression primitives (module re).                              *)

\* \b at position i: between s[i-1] and s[i], one a word character and the
\* other not (the ends of the text count as non-word)
WordBoundary(s, i) ==
    LET before == i >= 2 /\ i - 1 <= Len(s) /\ IsWord(s[i - 1])
        after  == i >= 1 /\ i <= Len(s) /\ IsWord(s[i])
    IN  before # after

\* $ under re.MULTILINE: at the end of the text or just before a newline
LineEnd(s, i) == i = Len(s) + 1 \/ (i >= 1 /\ i <= Len(s) /\ s[i] = "\n")

\* . without re.DOTALL: any character but a newline, over s[i..j-1]
NoNewline(s, i, j) == \A k \in i..(j - 1) : s[k] # "\n"

\* \s* over s[i..j-1]
AllSpace(s, i, j) == \A k \in i..(j - 1) : IsSpace(s[k])

\* re.search(r'\b(w1|w2|...)\b', s, re.IGNORECASE | re.MULTILINE)
SearchWords(s, words) ==
    \E i \in 1..Len(s) : \E w \in words :
        /\ WordBoundary(s, i)
        /\ LitAtNoCase(s, i, w)
        /\ WordBoundary(s, i + Len(w))

\* DELETE
kDELETE ==
    <<"D","E","L","E","T","E">>
\* DROP
kDROP ==
    <<"D","R","O","P">>
\* TRUNCATE
kTRUNCATE ==
    <<"T","R","U","N","C","A","T","E">>
\* ALTER
kALTER ==
    <<"A","L","T","E","R">>
\* CREATE
kCREATE ==
    <<"C","R","E","A","T","E">>
\* INSERT
kINSERT ==
    <<"I","N","S","E","R","T">>
\* UPDATE
kUPDATE ==
    <<"U","P","D","A","T","E">>
\* GRANT
kGRANT ==
    <<"G","R","A","N","T">>
\* REVOKE
kREVOKE ==
    <<"R","E","V","O","K","E">>
\* EXEC
kEXEC ==
    <<"E","X","E","C">>
\* EXECUTE
kEXECUTE ==
    <<"E","X","E","C","U","T","E">>
\* sp_
k_sp ==
    <<"s","p","_">>
\* xp_
k_xp ==
    <<"x","p","_">>
\* UNION
kUNION ==
    <<"U","N","I","O","N">>
\* ALL
kALL ==
    <<"A","L","L">>
\* SELECT
kSELECT ==
    <<"S","E","L","E","C","T">>
\* WITH
kWITH ==
    <<"W","I","T","H">>
\* SHOW
kSHOW ==
    <<"S","H","O","W">>
\* DESCRIBE
kDESCRIBE ==
    <<"D","E","S","C","R","I","B","E">>
\* INFORMATION_SCHEMA.
kINFORMATION_SCHEMA_DOT ==
    <<"I","N","F","O","R","M","A","T","I","O","N","_","S","C","H","E","M","A",
      ".">>
\* TABLES
kTABLES ==
    <<"T","A","B","L","E","S">>
\* COLUMNS
kCOLUMNS ==
    <<"C","O","L","U","M","N","S">>

\* r'\b(DELETE|DROP|TRUNCATE|ALTER|CREATE|INSERT|UPDATE|GRANT|REVOKE)\b'
MatchMutation(s) ==
    SearchWords(s, {kDELETE, kDROP, kTRUNCATE, kALTER, kCREATE, kINSERT,
                    kUPDATE, kGRANT, kREVOKE})

\* r'\b(EXEC|EXECUTE|sp_|xp_)\b'
MatchProcedure(s) == SearchWords(s, {kEXEC, kEXECUTE, k_sp, k_xp})

\* r'--.*$'
MatchLineComment(s) ==
    \E i \in 1..Len(s) :
        /\ LitAtNoCase(s, i, <<"-", "-">>)
        /\ \E j \in (i + 2)..(Len(s) + 1) : NoNewline(s, i + 2, j) /\ LineEnd(s, j)

\* r'/\*.*?\*/'
MatchBlockComment(s) ==
    \E i \in 1..Len(s) :
        /\ LitAtNoCase(s, i, <<"/", "*">>)
        /\ \E j \in (i + 2)..Len(s) :
               NoNewline(s, i + 2, j) /\ LitAtNoCase(s, j, <<"*", "/">>)

\* r';\s*$'
MatchTerminator(s) ==
    \E i \in 1..Len(s) :
        /\ s[i] = ";"
        /\ \E j \in (i + 1)..(Len(s) + 1) : AllSpace(s, i + 1, j) /\ LineEnd(s, j)

\* r'UNION\s+ALL\s+SELECT'
MatchUnion(s) ==
    \E i \in 1..Len(s) :
        /\ LitAtNoCase(s, i, kUNION)
        /\ \E j \in (i + Len(kUNION) + 1)..Len(s) :
               /\ AllSpace(s, i + Len(kUNION), j)
               /\ LitAtNoCase(s, j, kALL)
               /\ \E k \in (j + Len(kALL) + 1)..Len(s) :
                      /\ AllSpace(s, j + Len(kALL), k)
                      /\ LitAtNoCase(s, k, kSELECT)

\* r'INFORMATION_SCHEMA\.(TABLES|COLUMNS)'
MatchSchemaEnum(s) ==
    \E i \in 1..Len(s) :
        /\ LitAtNoCase(s, i, kINFORMATION_SCHEMA_DOT)
        /\ \/ LitAtNoCase(s, i + Len(kINFORMATION_SCHEMA_DOT), kTABLES)
           \/ LitAtNoCase(s, i + Len(kINFORMATION_SCHEMA_DOT), kCOLUMNS)

\* the source text of each pattern, as it is quoted in a rejection
\* \b(DELETE|DROP|TRUNCATE|ALTER|CREATE|INSERT|UPDATE|GRANT|REVOKE)\b
pMutation ==
    <<"\\","b","(","D","E","L","E","T","E","|","D","R","O","P","|","T","R","U",
      "N","C","A","T","E","|","A","L","T","E","R","|","C","R","E","A","T","E",
      "|","I","N","S","E","R","T","|","U","P","D","A","T","E","|","G","R","A",
      "N","T","|","R","E","V","O","K","E",")","\\","b">>
\* \b(EXEC|EXECUTE|sp_|xp_)\b
pProcedure ==
    <<"\\","b","(","E","X","E","C","|","E","X","E","C","U","T","E","|","s","p",
      "_","|","x","p","_",")","\\","b">>
\* --.*$
pLineComment ==
    <<"-","-",".","*","$">>
\* /\*.*?\*/
pBlockComment ==
    <<"/","\\","*",".","*","?","\\","*","/">>
\* ;\s*$
pTerminator ==
    <<";","\\","s","*","$">>
\* UNION\s+ALL\s+SELECT
pUnion ==
    <<"U","N","I","O","N","\\","s","+","A","L","L","\\","s","+","S","E","L","E",
      "C","T">>
\* INFORMATION_SCHEMA\.(TABLES|COLUMNS)
pSchemaEnum ==
    <<"I","N","F","O","R","M","A","T","I","O","N","_","S","C","H","E","M","A",
      "\\",".","(","T","A","B","L","E","S","|","C","O","L","U","M","N","S",")">>

\* SpannerSecurityValidator.DANGEROUS_PATTERNS, in list order
DANGEROUS_PATTERNS ==
    <<pMutation, pProcedure, pLineComment, pBlockComment, pTerminator,
      pUnion, pSchemaEnum>>

\* re.search(DANGEROUS_PATTERNS[n], s, re.IGNORECASE | re.MULTILINE)
SearchDangerous(n, s) ==
    CASE n = 1 -> MatchMutation(s)
      [] n = 2 -> MatchProcedure(s)
      [] n = 3 -> MatchLineComment(s)
      [] n = 4 -> MatchBlockComment(s)
      [] n = 5 -> MatchTerminator(s)
      [] n = 6 -> MatchUnion(s)
      [] n = 7 -> MatchSchemaEnum(s)

\* re.match(r'^\s*KEYWORD\s+', s): leading whitespace, the keyword in upper
\* case (no re.IGNORECASE here), then at least one whitespace character
MatchLeading(s, keyword) ==
    \E i \in 1..(Len(s) + 1) :
        /\ AllSpace(s, 1, i)
        /\ LitAt(s, i, keyword)
        /\ i + Len(keyword) <= Len(s)
        /\ IsSpace(s[i + Len(keyword)])

\* SpannerSecurityValidator.ALLOWED_PATTERNS, by the keyword of each
ALLOWED_PATTERNS == <<kSELECT, kWITH, kSHOW, kDESCRIBE>>

---------------------------------------------------------------------------
(* SecurityContext and the policy engine.                                  *)

\* the default of SPANNER_MAX_ROWS
DEFAULT_MAX_ROWS == 1000
\* the default of SPANNER_QUERY_TIMEOUT
DEFAULT_QUERY_TIMEOUT == 30
\* the complexity gate: more SELECT than this is rejected
MAX_SELECT_COUNT == 3
\* the length gate: a longer text is rejected
MAX_QUERY_LENGTH == 10000

\* SpannerAgent._create_security_context
_create_security_context(user_id, session_id) ==
    [user_id |-> user_id, session_id |-> session_id, read_only |-> read_only,
     max_rows |-> max_rows, query_timeout |-> DEFAULT_QUERY_TIMEOUT]

\* Query contains forbidden pattern: 
msgForbidden ==
    <<"Q","u","e","r","y"," ","c","o","n","t","a","i","n","s"," ","f","o","r",
      "b","i","d","d","e","n"," ","p","a","t","t","e","r","n",":"," ">>
\* Read-only mode: Only SELECT queries are allowed
msgReadOnly ==
    <<"R","e","a","d","-","o","n","l","y"," ","m","o","d","e",":"," ","O","n",
      "l","y"," ","S","E","L","E","C","T"," ","q","u","e","r","i","e","s"," ",
      "a","r","e"," ","a","l","l","o","w","e","d">>
\* Query too complex: Too many SELECT statements
msgTooComplex ==
    <<"Q","u","e","r","y"," ","t","o","o"," ","c","o","m","p","l","e","x",":",
      " ","T","o","o"," ","m","a","n","y"," ","S","E","L","E","C","T"," ","s",
      "t","a","t","e","m","e","n","t","s">>
\* Query too long: Maximum 10,000 characters allowed
msgTooLong ==
    <<"Q","u","e","r","y"," ","t","o","o"," ","l","o","n","g",":"," ","M","a",
      "x","i","m","u","m"," ","1","0",",","0","0","0"," ","c","h","a","r","a",
      "c","t","e","r","s"," ","a","l","l","o","w","e","d">>

\* the patterns of DANGEROUS_PATTERNS that match, by index
DangerousHits(sql_upper) ==
    {n \in 1..Len(DANGEROUS_PATTERNS) : SearchDangerous(n, sql_upper)}

\* validate_query with the length gate applied before the other rules
validate_query_length_first(sql, security_context) ==
    LET Checks(sql_upper, hits) ==
            IF len(sql) > MAX_QUERY_LENGTH
            THEN <<FALSE, msgTooLong>>
            ELSE IF hits # {}
            THEN LET first == CHOOSE n \in hits : \A m \in hits : n <= m
                 IN  <<FALSE, msgForbidden \o DANGEROUS_PATTERNS[first]>>
            ELSE IF /\ security_context.read_only
                    /\ ~\E n \in 1..Len(ALLOWED_PATTERNS) :
                           MatchLeading(sql_upper, ALLOWED_PATTERNS[n])
            THEN <<FALSE, msgReadOnly>>
            ELSE IF count(sql_upper, kSELECT) > MAX_SELECT_COUNT
            THEN <<FALSE, msgTooComplex>>
            ELSE <<TRUE, <<>>>>
    IN  Checks(UpperStrip(sql), DangerousHits(UpperStrip(sql)))

\* SpannerSecurityValidator.validate_query: <<is_valid, error_message>>
validate_query(sql, security_context) ==
    LET Checks(sql_upper, hits) ==
            IF hits # {}
            THEN LET first == CHOOSE n \in hits : \A m \in hits : n <= m
                 IN  <<FALSE, msgForbidden \o DANGEROUS_PATTERNS[first]>>
            ELSE IF /\ security_context.read_only
                    /\ ~\E n \in 1..Len(ALLOWED_PATTERNS) :
                           MatchLeading(sql_upper, ALLOWED_PATTERNS[n])
            THEN <<FALSE, msgReadOnly>>
            ELSE IF count(sql_upper, kSELECT) > MAX_SELECT_COUNT
            THEN <<FALSE, msgTooComplex>>
            ELSE IF len(sql) > MAX_QUERY_LENGTH
            THEN <<FALSE, msgTooLong>>
            ELSE <<TRUE, <<>>>>
    IN  Checks(UpperStrip(sql), DangerousHits(UpperStrip(sql)))

---------------------------------------------------------------------------
(* Python values shared by the operations.                                 *)

None == "None"

\* datetime.utcnow()
utcnow(now) == [type |-> "datetime", at |-> now]

\* datetime.isoformat(): the str that spells the instant
isoformat(d) == [type |-> "str", iso |-> d.at]

\* an exception instance; str(e) is e.msg, e.cause is __cause__
NoCause == [type |-> "None", msg |-> <<>>]
Exception(type, msg, cause) == [type |-> type, msg |-> msg, cause |-> cause]
str(e) == e.msg

Return(value, evs) == [kind |-> "return", value |-> value, events |-> evs]
Raise(exc, evs) == [kind |-> "raise", exc |-> exc, events |-> evs]

\* the identity of the database the agent was constructed for
PROJECT_ID == "project"
INSTANCE_ID == "instance"
DATABASE_ID == "database"

---------------------------------------------------------------------------
(* The database collaborator.  A response says how the database answers    *)
(* one statement: where it fails, if it does, and one table name per row   *)
(* of its result set.                                                      *)

\* 504 Deadline Exceeded
errDeadline ==
    <<"5","0","4"," ","D","e","a","d","l","i","n","e"," ","E","x","c","e","e",
      "d","e","d">>
\* 400 Syntax error
errSyntax ==
    <<"4","0","0"," ","S","y","n","t","a","x"," ","e","r","r","o","r">>

TableNames == {"t1", "t2"}

\* the result sets drawn: n rows ordered by table name, all of table t1 or
\* the first of t1 and the rest of t2
DbRowSets ==
    {[i \in 1..n |-> IF i <= k THEN "t1" ELSE "t2"] :
        n \in 0..MaxDbRows, k \in {1, MaxDbRows}}

\* fail: "none", or the call that raises: "snapshot" (opening the snapshot),
\* "execute_sql", or "rows" (the row stream, after fail_at rows)
DbResponses ==
    {[fail |-> "none", fail_at |-> 0, error |-> <<>>, names |-> r] :
        r \in DbRowSets}
    \cup {[fail |-> f, fail_at |-> 0, error |-> errDeadline, names |-> <<>>] :
        f \in {"snapshot", "execute_sql"}}
    \cup {[fail |-> "execute_sql", fail_at |-> 0, error |-> errSyntax,
           names |-> <<>>]}
    \cup {[fail |-> "rows", fail_at |-> at, error |-> errDeadline,
           names |-> [i \in 1..MaxDbRows |-> "t1"]] :
        at \in {0, MaxDbRows - 1}}

---------------------------------------------------------------------------
(* SpannerAgent._audit_log and SpannerAgent.execute_query.                 *)

\* query_rejected
evRejected ==
    <<"q","u","e","r","y","_","r","e","j","e","c","t","e","d">>
\* query_execution_start
evStart ==
    <<"q","u","e","r","y","_","e","x","e","c","u","t","i","o","n","_","s","t",
      "a","r","t">>
\* query_execution_success
evSuccess ==
    <<"q","u","e","r","y","_","e","x","e","c","u","t","i","o","n","_","s","u",
      "c","c","e","s","s">>
\* query_execution_error
evError ==
    <<"q","u","e","r","y","_","e","x","e","c","u","t","i","o","n","_","e","r",
      "r","o","r">>
\* schema_query_error
evSchemaError ==
    <<"s","c","h","e","m","a","_","q","u","e","r","y","_","e","r","r","o","r">>

\* one structured event handed to the log sink
AuditEvent(event_type, sql, user_id, session_id, details, now) ==
    <<[ev |-> "audit",
            entry |-> [timestamp |-> isoformat(utcnow(now)),
                       event_type |-> event_type,
                       user_id |-> user_id,
                       session_id |-> session_id,
                       sql |-> sql,
                       details |-> details,
                       project_id |-> PROJECT_ID,
                       instance_id |-> INSTANCE_ID,
                       database_id |-> DATABASE_ID]]>>

\* _audit_log without its check of enable_audit
_audit_log_always(event_type, sql, user_id, session_id, details, now) ==
    AuditEvent(event_type, sql, user_id, session_id, details, now)

\* SpannerAgent._audit_log: the events it hands to the log sink
_audit_log(event_type, sql, user_id, session_id, details, now) ==
    IF ~enable_audit THEN <<>>
    ELSE AuditEvent(event_type, sql, user_id, session_id, details, now)

\* Query rejected for security reasons: 
msgRejected ==
    <<"Q","u","e","r","y"," ","r","e","j","e","c","t","e","d"," ","f","o","r",
      " ","s","e","c","u","r","i","t","y"," ","r","e","a","s","o","n","s",":",
      " ">>
\* Query execution failed: 
msgExecFailed ==
    <<"Q","u","e","r","y"," ","e","x","e","c","u","t","i","o","n"," ","f","a",
      "i","l","e","d",":"," ">>
\* Returned 
msgReturned ==
    <<"R","e","t","u","r","n","e","d"," ">>
\*  rows in 
msgRowsIn ==
    <<" ","r","o","w","s"," ","i","n"," ">>
\* s
msgSeconds ==
    <<"s">>

\* f"{execution_time:.3f}" for a whole number of seconds
Fixed3(t) == IntStr(t) \o <<".", "0", "0", "0">>

\* dict(zip(field_names, values)): a later duplicate name wins
DictZip(field_names, values) ==
    LET n == IF Len(field_names) < Len(values) THEN Len(field_names)
             ELSE Len(values)
    IN  [f \in {field_names[i] : i \in 1..n} |->
            values[CHOOSE i \in 1..n :
                      /\ field_names[i] = f
                      /\ \A j \in 1..n : field_names[j] = f => j <= i]]

\* one call to the database collaborator: what was called, for which
\* statement, the row it delivered (0 when none), whether it raised
DbEvent(ev, sql, row, raised) ==
    [ev |-> ev, sql |-> sql, row |-> row, raised |-> raised]

\* the loop with the cap checked by > where the code has >=
RECURSIVE ProcessRowsOffByOne(_, _, _, _, _)
ProcessRowsOffByOne(stream, field_names, security_context, k, acc) ==
    IF stream.fail = "rows" /\ k - 1 = stream.fail_at
    THEN [raised |-> TRUE, results |-> acc.results,
          events |-> Append(acc.events,
                            DbEvent("next_row", stream.sql, 0, TRUE))]
    ELSE IF k > Len(stream.rows)
    THEN [raised |-> FALSE, results |-> acc.results,
          events |-> Append(acc.events,
                            DbEvent("next_row", stream.sql, 0, FALSE))]
    ELSE LET pulled == Append(acc.events,
                              DbEvent("next_row", stream.sql, k, FALSE))
             row_count == Len(acc.results)
         IN  IF row_count > security_context.max_rows
             THEN [raised |-> FALSE, results |-> acc.results,
                   events |-> pulled]
             ELSE ProcessRowsOffByOne(stream, field_names, security_context, k + 1,
                      [results |-> Append(acc.results,
                                      DictZip(field_names, stream.rows[k])),
                       events |-> pulled])

\* the loop over the row stream (agent.py 237-244): each turn pulls one row
\* from the stream, then checks the cap, then materializes the row
RECURSIVE ProcessRows(_, _, _, _, _)
ProcessRows(stream, field_names, security_context, k, acc) ==
    IF stream.fail = "rows" /\ k - 1 = stream.fail_at
    THEN [raised |-> TRUE, results |-> acc.results,
          events |-> Append(acc.events,
                            DbEvent("next_row", stream.sql, 0, TRUE))]
    ELSE IF k > Len(stream.rows)
    THEN [raised |-> FALSE, results |-> acc.results,
          events |-> Append(acc.events,
                            DbEvent("next_row", stream.sql, 0, FALSE))]
    ELSE LET pulled == Append(acc.events,
                              DbEvent("next_row", stream.sql, k, FALSE))
             row_count == Len(acc.results)
         IN  IF row_count >= security_context.max_rows
             THEN [raised |-> FALSE, results |-> acc.results,
                   events |-> pulled]
             ELSE ProcessRows(stream, field_names, security_context, k + 1,
                      [results |-> Append(acc.results,
                                      DictZip(field_names, stream.rows[k])),
                       events |-> pulled])

\* the column names the agent's statements select
\* TABLE_NAME
cTABLE_NAME ==
    <<"T","A","B","L","E","_","N","A","M","E">>
\* COLUMN_NAME
cCOLUMN_NAME ==
    <<"C","O","L","U","M","N","_","N","A","M","E">>
\* INDEX_NAME
cINDEX_NAME ==
    <<"I","N","D","E","X","_","N","A","M","E">>
\* SPANNER_TYPE
cSPANNER_TYPE ==
    <<"S","P","A","N","N","E","R","_","T","Y","P","E">>
\* INDEX_TYPE
cINDEX_TYPE ==
    <<"I","N","D","E","X","_","T","Y","P","E">>
\* IS_NULLABLE
cIS_NULLABLE ==
    <<"I","S","_","N","U","L","L","A","B","L","E">>
\* IS_UNIQUE
cIS_UNIQUE ==
    <<"I","S","_","U","N","I","Q","U","E">>
\* IS_NULL_FILTERED
cIS_NULL_FILTERED ==
    <<"I","S","_","N","U","L","L","_","F","I","L","T","E","R","E","D">>
\* ORDINAL_POSITION
cORDINAL_POSITION ==
    <<"O","R","D","I","N","A","L","_","P","O","S","I","T","I","O","N">>
\* COLUMN_DEFAULT
cCOLUMN_DEFAULT ==
    <<"C","O","L","U","M","N","_","D","E","F","A","U","L","T">>

KnownColumns ==
    <<[name |-> "TABLE_NAME", text |-> cTABLE_NAME],
      [name |-> "COLUMN_NAME", text |-> cCOLUMN_NAME],
      [name |-> "INDEX_NAME", text |-> cINDEX_NAME],
      [name |-> "SPANNER_TYPE", text |-> cSPANNER_TYPE],
      [name |-> "INDEX_TYPE", text |-> cINDEX_TYPE],
      [name |-> "IS_NULLABLE", text |-> cIS_NULLABLE],
      [name |-> "IS_UNIQUE", text |-> cIS_UNIQUE],
      [name |-> "IS_NULL_FILTERED", text |-> cIS_NULL_FILTERED],
      [name |-> "ORDINAL_POSITION", text |-> cORDINAL_POSITION],
      [name |-> "COLUMN_DEFAULT", text |-> cCOLUMN_DEFAULT]>>

\* rows.metadata.row_type.fields: the columns the statement names, or one
\* anonymous column when it names none of them
RECURSIVE FieldsFrom(_, _)
FieldsFrom(text, i) ==
    IF i > Len(KnownColumns) THEN <<>>
    ELSE (IF Contains(text, KnownColumns[i].text)
          THEN <<KnownColumns[i].name>> ELSE <<>>) \o FieldsFrom(text, i + 1)

FieldNames(sql) ==
    LET named == FieldsFrom(upper(sql.body), 1)
    IN  IF named = <<>> THEN <<"c1">> ELSE named

YesNo(b) == IF b THEN "YES" ELSE "NO"

\* the cell of row i, which belongs to table t, in column f
Cell(f, t, i) ==
    CASE f = "TABLE_NAME" -> t
      [] f = "COLUMN_NAME" -> "col" \o ToString(i)
      [] f = "INDEX_NAME" -> "idx" \o ToString(i)
      [] f = "SPANNER_TYPE" -> "INT64"
      [] f = "INDEX_TYPE" -> "INDEX"
      [] f = "IS_NULLABLE" -> YesNo(i % 2 = 0)
      [] f = "IS_UNIQUE" -> YesNo(i % 2 = 1)
      [] f = "IS_NULL_FILTERED" -> YesNo(FALSE)
      [] OTHER -> ToString(i)

\* snapshot.execute_sql(sql) when it does not raise: the row stream
ResultSet(sql, db) ==
    LET Stream(field_names) ==
            [sql |-> sql,
             field_names |-> field_names,
             rows |-> [i \in 1..Len(db.names) |->
                          [j \in 1..Len(field_names) |->
                              Cell(field_names[j], db.names[i], i)]],
             fail |-> db.fail,
             fail_at |-> db.fail_at]
    IN  Stream(FieldNames(sql))

\* the exception the database raises
DbError(db) == Exception("GoogleAPICallError", db.error, NoCause)

\* the try block with a snapshot that is closed only when the block is left
\* normally
RunInSnapshotUnscoped(sql, security_context, db) ==
    IF db.fail = "snapshot"
    THEN [raised |-> TRUE, results |-> <<>>,
          events |-> <<DbEvent("snapshot_enter", sql, 0, TRUE)>>]
    ELSE IF db.fail = "execute_sql"
    THEN [raised |-> TRUE, results |-> <<>>,
          events |-> <<DbEvent("snapshot_enter", sql, 0, FALSE),
                       DbEvent("execute_sql", sql, 0, TRUE)>>]
    ELSE LET Loop(rows) ==
                 ProcessRows(rows, rows.field_names, security_context, 1,
                     [results |-> <<>>,
                      events |-> <<DbEvent("snapshot_enter", sql, 0, FALSE),
                                   DbEvent("execute_sql", sql, 0, FALSE)>>])
             Exit(loop) ==
                 [raised |-> loop.raised, results |-> loop.results,
                  events |-> IF loop.raised THEN loop.events
                             ELSE Append(loop.events,
                                      DbEvent("snapshot_exit", sql, 0, FALSE))]
         IN  Exit(Loop(ResultSet(sql, db)))

\* the body of the try block (agent.py 225-244): the snapshot is a context
\* manager, closed when the block is left, normally or by an exception
RunInSnapshot(sql, security_context, db) ==
    IF db.fail = "snapshot"
    THEN [raised |-> TRUE, results |-> <<>>,
          events |-> <<DbEvent("snapshot_enter", sql, 0, TRUE)>>]
    ELSE IF db.fail = "execute_sql"
    THEN [raised |-> TRUE, results |-> <<>>,
          events |-> <<DbEvent("snapshot_enter", sql, 0, FALSE),
                       DbEvent("execute_sql", sql, 0, TRUE),
                       DbEvent("snapshot_exit", sql, 0, FALSE)>>]
    ELSE LET Loop(rows) ==
                 ProcessRows(rows, rows.field_names, security_context, 1,
                     [results |-> <<>>,
                      events |-> <<DbEvent("snapshot_enter", sql, 0, FALSE),
                                   DbEvent("execute_sql", sql, 0, FALSE)>>])
             Exit(loop) ==
                 [raised |-> loop.raised, results |-> loop.results,
                  events |-> Append(loop.events,
                                    DbEvent("snapshot_exit", sql, 0, FALSE))]
         IN  Exit(Loop(ResultSet(sql, db)))

\* the QueryResult dataclass (agent.py 62-73)
QueryResult(success, data, row_count, execution_time, sql, timestamp, user_id, session_id) ==
    [dataclass |-> "QueryResult", success |-> success, data |-> data,
     row_count |-> row_count, execution_time |-> execution_time,
     sql |-> sql, timestamp |-> timestamp, user_id |-> user_id,
     session_id |-> session_id, error |-> None]

\* the rejection branch of execute_query (agent.py 217-219)
Rejected(sql, user_id, session_id, error_message, evs, now) ==
    Raise(Exception("ValueError", msgRejected \o error_message, NoCause),
          evs \o _audit_log(evRejected, sql, user_id, session_id,
                            error_message, now))

\* the except clause raising without "from e"
ExecutionFailureUnchained(e, sql, user_id, session_id, evs, now) ==
    LET error_msg == msgExecFailed \o str(e)
    IN  Raise(Exception("RuntimeError", error_msg, NoCause),
              evs \o _audit_log(evError, sql, user_id, session_id, error_msg,
                                now))

\* the except clause of execute_query (agent.py 264-267)
ExecutionFailure(e, sql, user_id, session_id, evs, now) ==
    LET error_msg == msgExecFailed \o str(e)
    IN  Raise(Exception("RuntimeError", error_msg, e),
              evs \o _audit_log(evError, sql, user_id, session_id, error_msg,
                                now))

\* execute_query sending a failed statement a second time before it reports
\* the failure
ExecuteRetrying(sql, security_context, user_id, session_id, db, evs, now) ==
    LET execution_time == 0
        Try(started, run, again) ==
            IF run.raised
            THEN ExecutionFailure(DbError(db), sql, user_id, session_id,
                                  started \o run.events \o again.events, now)
            ELSE Return(QueryResult(TRUE, run.results, Len(run.results),
                            execution_time, sql, isoformat(utcnow(now)),
                            user_id, session_id),
                        started \o run.events
                        \o _audit_log(evSuccess, sql, user_id, session_id,
                               msgReturned \o IntStr(Len(run.results))
                               \o msgRowsIn \o Fixed3(execution_time)
                               \o msgSeconds, now))
    IN  Try(evs \o _audit_log(evStart, sql, user_id, session_id, <<>>, now),
            RunInSnapshot(sql, security_context, db),
            RunInSnapshot(sql, security_context, db))

\* execute_query once the statement is accepted (agent.py 221-267)
Execute(sql, security_context, user_id, session_id, db, evs, now) ==
    LET \* time.time() - query_start, in whole seconds
        execution_time == 0
        Try(started, run) ==
            IF run.raised
            THEN ExecutionFailure(DbError(db), sql, user_id, session_id,
                                  started \o run.events, now)
            ELSE Return(QueryResult(TRUE, run.results, Len(run.results),
                            execution_time, sql, isoformat(utcnow(now)),
                            user_id, session_id),
                        started \o run.events
                        \o _audit_log(evSuccess, sql, user_id, session_id,
                               msgReturned \o IntStr(Len(run.results))
                               \o msgRowsIn \o Fixed3(execution_time)
                               \o msgSeconds, now))
    IN  Try(evs \o _audit_log(evStart, sql, user_id, session_id, <<>>, now),
            RunInSnapshot(sql, security_context, db))

\* the call to the policy engine, as it is seen in the trace
Validated(sql, security_context, is_valid) ==
    <<[ev |-> "validate_query", sql |-> sql,
       read_only |-> security_context.read_only, is_valid |-> is_valid]>>

\* execute_query going on to the database whatever the verdict
execute_query_unvalidated(sql, user_id, session_id, db, now) ==
    LET security_context == _create_security_context(user_id, session_id)
    IN  Execute(sql, security_context, user_id, session_id, db,
                Validated(sql, security_context,
                          validate_query(sql, security_context)[1]),
                now)

\* SpannerAgent.execute_query.  db is how the database answers this call,
\* now is the wall clock.
execute_query(sql, user_id, session_id, db, now) ==
    LET security_context == _create_security_context(user_id, session_id)
        Decide(is_valid, error_message) ==
            IF ~is_valid
            THEN Rejected(sql, user_id, session_id, error_message,
                          Validated(sql, security_context, is_valid), now)
            ELSE Execute(sql, security_context, user_id, session_id, db,
                         Validated(sql, security_context, is_valid), now)
        Unpack(verdict) == Decide(verdict[1], verdict[2])
    IN  Unpack(validate_query(sql, security_context))

---------------------------------------------------------------------------
(* The derived read-only operations of SpannerAgent.                       *)

\* tables_query of get_schema_info (agent.py 278-289)
\* SELECT TABLE_NAME, COLUMN_NAME, SPANNER_TYPE, IS_NULLABLE, ORDINAL_POSITION, COLUMN_DEFAULT FROM INFORMATION_SCHEMA.COLUMNS WHERE TABLE_SCHEMA = '' ORDER BY TABLE_NAME, ORDINAL_POSITION
tables_query_text ==
    <<"\n"," "," "," "," "," "," "," "," "," "," "," "," "," "," "," "," ","S",
      "E","L","E","C","T"," ","\n"," "," "," "," "," "," "," "," "," "," "," ",
      " "," "," "," "," "," "," "," "," ","T","A","B","L","E","_","N","A","M",
      "E",",","\n"," "," "," "," "," "," "," "," "," "," "," "," "," "," "," ",
      " "," "," "," "," ","C","O","L","U","M","N","_","N","A","M","E",",","\n",
      " "," "," "," "," "," "," "," "," "," "," "," "," "," "," "," "," "," ",
      " "," ","S","P","A","N","N","E","R","_","T","Y","P","E",",","\n"," "," ",
      " "," "," "," "," "," "," "," "," "," "," "," "," "," "," "," "," "," ",
      "I","S","_","N","U","L","L","A","B","L","E",",","\n"," "," "," "," "," ",
      " "," "," "," "," "," "," "," "," "," "," "," "," "," "," ","O","R","D",
      "I","N","A","L","_","P","O","S","I","T","I","O","N",",","\n"," "," "," ",
      " "," "," "," "," "," "," "," "," "," "," "," "," "," "," "," "," ","C",
      "O","L","U","M","N","_","D","E","F","A","U","L","T","\n"," "," "," "," ",
      " "," "," "," "," "," "," "," "," "," "," "," ","F","R","O","M"," ","I",
      "N","F","O","R","M","A","T","I","O","N","_","S","C","H","E","M","A",".",
      "C","O","L","U","M","N","S","\n"," "," "," "," "," "," "," "," "," "," ",
      " "," "," "," "," "," ","W","H","E","R","E"," ","T","A","B","L","E","_",
      "S","C","H","E","M","A"," ","="," ","'","'","\n"," "," "," "," "," "," ",
      " "," "," "," "," "," "," "," "," "," ","O","R","D","E","R"," ","B","Y",
      " ","T","A","B","L","E","_","N","A","M","E",","," ","O","R","D","I","N",
      "A","L","_","P","O","S","I","T","I","O","N","\n"," "," "," "," "," "," ",
      " "," "," "," "," "," ">>

\* indexes_query of get_schema_info (agent.py 292-302)
\* SELECT TABLE_NAME, INDEX_NAME, INDEX_TYPE, IS_UNIQUE, IS_NULL_FILTERED FROM INFORMATION_SCHEMA.INDEXES WHERE TABLE_SCHEMA = '' ORDER BY TABLE_NAME, INDEX_NAME
indexes_query_text ==
    <<"\n"," "," "," "," "," "," "," "," "," "," "," "," "," "," "," "," ","S",
      "E","L","E","C","T"," ","\n"," "," "," "," "," "," "," "," "," "," "," ",
      " "," "," "," "," "," "," "," "," ","T","A","B","L","E","_","N","A","M",
      "E",",","\n"," "," "," "," "," "," "," "," "," "," "," "," "," "," "," ",
      " "," "," "," "," ","I","N","D","E","X","_","N","A","M","E",",","\n"," ",
      " "," "," "," "," "," "," "," "," "," "," "," "," "," "," "," "," "," ",
      " ","I","N","D","E","X","_","T","Y","P","E",",","\n"," "," "," "," "," ",
      " "," "," "," "," "," "," "," "," "," "," "," "," "," "," ","I","S","_",
      "U","N","I","Q","U","E",",","\n"," "," "," "," "," "," "," "," "," "," ",
      " "," "," "," "," "," "," "," "," "," ","I","S","_","N","U","L","L","_",
      "F","I","L","T","E","R","E","D","\n"," "," "," "," "," "," "," "," "," ",
      " "," "," "," "," "," "," ","F","R","O","M"," ","I","N","F","O","R","M",
      "A","T","I","O","N","_","S","C","H","E","M","A",".","I","N","D","E","X",
      "E","S","\n"," "," "," "," "," "," "," "," "," "," "," "," "," "," "," ",
      " ","W","H","E","R","E"," ","T","A","B","L","E","_","S","C","H","E","M",
      "A"," ","="," ","'","'","\n"," "," "," "," "," "," "," "," "," "," "," ",
      " "," "," "," "," ","O","R","D","E","R"," ","B","Y"," ","T","A","B","L",
      "E","_","N","A","M","E",","," ","I","N","D","E","X","_","N","A","M","E",
      "\n"," "," "," "," "," "," "," "," "," "," "," "," ">>

\* columns_query of get_table_statistics (agent.py 507-516), up to the name
\* SELECT COLUMN_NAME, SPANNER_TYPE, IS_NULLABLE, ORDINAL_POSITION FROM INFORMATION_SCHEMA.COLUMNS WHERE TABLE_NAME = '
columns_query_head ==
    <<"\n"," "," "," "," "," "," "," "," "," "," "," "," "," "," "," "," ","S",
      "E","L","E","C","T"," ","\n"," "," "," "," "," "," "," "," "," "," "," ",
      " "," "," "," "," "," "," "," "," ","C","O","L","U","M","N","_","N","A",
      "M","E",",","\n"," "," "," "," "," "," "," "," "," "," "," "," "," "," ",
      " "," "," "," "," "," ","S","P","A","N","N","E","R","_","T","Y","P","E",
      ",","\n"," "," "," "," "," "," "," "," "," "," "," "," "," "," "," "," ",
      " "," "," "," ","I","S","_","N","U","L","L","A","B","L","E",",","\n"," ",
      " "," "," "," "," "," "," "," "," "," "," "," "," "," "," "," "," "," ",
      " ","O","R","D","I","N","A","L","_","P","O","S","I","T","I","O","N","\n",
      " "," "," "," "," "," "," "," "," "," "," "," "," "," "," "," ","F","R",
      "O","M"," ","I","N","F","O","R","M","A","T","I","O","N","_","S","C","H",
      "E","M","A",".","C","O","L","U","M","N","S","\n"," "," "," "," "," "," ",
      " "," "," "," "," "," "," "," "," "," ","W","H","E","R","E"," ","T","A",
      "B","L","E","_","N","A","M","E"," ","="," ","'">>
\* and after it
\* ' AND TABLE_SCHEMA = '' ORDER BY ORDINAL_POSITION
columns_query_tail ==
    <<"'"," ","A","N","D"," ","T","A","B","L","E","_","S","C","H","E","M","A",
      " ","="," ","'","'","\n"," "," "," "," "," "," "," "," "," "," "," "," ",
      " "," "," "," ","O","R","D","E","R"," ","B","Y"," ","O","R","D","I","N",
      "A","L","_","P","O","S","I","T","I","O","N","\n"," "," "," "," "," "," ",
      " "," "," "," "," "," ">>

\* indexes_query of get_table_statistics (agent.py 519-528), up to the name
\* SELECT INDEX_NAME, INDEX_TYPE, IS_UNIQUE, IS_NULL_FILTERED FROM INFORMATION_SCHEMA.INDEXES WHERE TABLE_NAME = '
stat_indexes_query_head ==
    <<"\n"," "," "," "," "," "," "," "," "," "," "," "," "," "," "," "," ","S",
      "E","L","E","C","T"," ","\n"," "," "," "," "," "," "," "," "," "," "," ",
      " "," "," "," "," "," "," "," "," ","I","N","D","E","X","_","N","A","M",
      "E",",","\n"," "," "," "," "," "," "," "," "," "," "," "," "," "," "," ",
      " "," "," "," "," ","I","N","D","E","X","_","T","Y","P","E",",","\n"," ",
      " "," "," "," "," "," "," "," "," "," "," "," "," "," "," "," "," "," ",
      " ","I","S","_","U","N","I","Q","U","E",",","\n"," "," "," "," "," "," ",
      " "," "," "," "," "," "," "," "," "," "," "," "," "," ","I","S","_","N",
      "U","L","L","_","F","I","L","T","E","R","E","D","\n"," "," "," "," "," ",
      " "," "," "," "," "," "," "," "," "," "," ","F","R","O","M"," ","I","N",
      "F","O","R","M","A","T","I","O","N","_","S","C","H","E","M","A",".","I",
      "N","D","E","X","E","S","\n"," "," "," "," "," "," "," "," "," "," "," ",
      " "," "," "," "," ","W","H","E","R","E"," ","T","A","B","L","E","_","N",
      "A","M","E"," ","="," ","'">>
\* and after it
\* ' AND TABLE_SCHEMA = '' ORDER BY INDEX_NAME
stat_indexes_query_tail ==
    <<"'"," ","A","N","D"," ","T","A","B","L","E","_","S","C","H","E","M","A",
      " ","="," ","'","'","\n"," "," "," "," "," "," "," "," "," "," "," "," ",
      " "," "," "," ","O","R","D","E","R"," ","B","Y"," ","I","N","D","E","X",
      "_","N","A","M","E","\n"," "," "," "," "," "," "," "," "," "," "," "," ">>

tables_query == Sql(tables_query_text)
indexes_query == Sql(indexes_query_text)

\* the f-strings of get_table_statistics: the name goes in as it is
columns_query(table_name) ==
    Sql(columns_query_head \o table_name \o columns_query_tail)
stat_indexes_query(table_name) ==
    Sql(stat_indexes_query_head \o table_name \o stat_indexes_query_tail)

\* Failed to retrieve schema information: 
msgSchemaFailed ==
    <<"F","a","i","l","e","d"," ","t","o"," ","r","e","t","r","i","e","v","e",
      " ","s","c","h","e","m","a"," ","i","n","f","o","r","m","a","t","i","o",
      "n",":"," ">>
\* schema_query
schema_query_label ==
    <<"s","c","h","e","m","a","_","q","u","e","r","y">>

\* the loop over tables_result.data (agent.py 321-339)
RECURSIVE AddColumns(_, _, _)
AddColumns(tables, data, i) ==
    IF i > Len(data) THEN tables
    ELSE LET row == data[i]
             table_name == row["TABLE_NAME"]
             known == IF table_name \in DOMAIN tables THEN tables
                      ELSE tables @@ (table_name :>
                               [columns |-> <<>>, column_count |-> 0])
             column_info == [name |-> row["COLUMN_NAME"],
                             type |-> row["SPANNER_TYPE"],
                             nullable |-> row["IS_NULLABLE"] = "YES",
                             position |-> row["ORDINAL_POSITION"],
                             default |-> row["COLUMN_DEFAULT"]]
         IN  AddColumns(
                 [known EXCEPT ![table_name] =
                     [columns |-> Append(@.columns, column_info),
                      column_count |-> @.column_count + 1]],
                 data, i + 1)

\* the loop over indexes_result.data (agent.py 342-357)
RECURSIVE AddIndexes(_, _, _)
AddIndexes(indexes, data, i) ==
    IF i > Len(data) THEN indexes
    ELSE LET row == data[i]
             table_name == row["TABLE_NAME"]
             known == IF table_name \in DOMAIN indexes THEN indexes
                      ELSE indexes @@ (table_name :> <<>>)
             index_info == [name |-> row["INDEX_NAME"],
                            type |-> row["INDEX_TYPE"],
                            unique |-> row["IS_UNIQUE"] = "YES",
                            null_filtered |-> row["IS_NULL_FILTERED"] = "YES"]
         IN  AddIndexes([known EXCEPT ![table_name] = Append(@, index_info)],
                        data, i + 1)

\* an empty dict
EmptyDict == [k \in {} |-> {}]

\* the except clause of get_schema_info (agent.py 363-367)
SchemaFailure(e, evs, now) ==
    LET error_msg == msgSchemaFailed \o str(e)
    IN  Raise(Exception("RuntimeError", error_msg, e),
              evs \o _audit_log(evSchemaError, Sql(schema_query_label),
                                "system", "schema_query", error_msg, now))

\* SpannerAgent.get_schema_info.  db1 and db2 are how the database answers
\* the first and the second statement.
get_schema_info(db1, db2, now) ==
    LET Process(tables_result, indexes_result) ==
            IF indexes_result.kind = "raise"
            THEN SchemaFailure(indexes_result.exc,
                     tables_result.events \o indexes_result.events, now)
            ELSE
            LET tables == AddColumns(EmptyDict, tables_result.value.data, 1)
                indexes == AddIndexes(EmptyDict, indexes_result.value.data, 1)
            IN  Return([tables |-> tables,
                        indexes |-> indexes,
                        metadata |->
                            [total_tables |-> Cardinality(DOMAIN tables),
                             total_columns |-> Len(tables_result.value.data),
                             total_indexes |-> Len(indexes_result.value.data),
                             last_updated |-> isoformat(utcnow(now))]],
                       tables_result.events \o indexes_result.events)
        Second(tables_result) ==
            IF tables_result.kind = "raise"
            THEN SchemaFailure(tables_result.exc, tables_result.events, now)
            ELSE Process(tables_result,
                     execute_query(indexes_query, "system", "schema_query",
                                   db2, now))
    IN  Second(execute_query(tables_query, "system", "schema_query", db1,
                             now))

\* 'SELECT 1 as health_check'
\* SELECT 1 as health_check
test_query_text ==
    <<"S","E","L","E","C","T"," ","1"," ","a","s"," ","h","e","a","l","t","h",
      "_","c","h","e","c","k">>
test_query == Sql(test_query_text)

\* 'str' object has no attribute 'isoformat'
msgNoIsoformat ==
    <<"'","s","t","r","'"," ","o","b","j","e","c","t"," ","h","a","s"," ","n",
      "o"," ","a","t","t","r","i","b","u","t","e"," ","'","i","s","o","f","o",
      "r","m","a","t","'">>

\* value.isoformat(): a method of datetime, which a str does not have
call_isoformat(value) ==
    IF value.type = "datetime"
    THEN [raised |-> FALSE, value |-> isoformat(value), exc |-> NoCause]
    ELSE [raised |-> TRUE, value |-> None,
          exc |-> Exception("AttributeError", msgNoIsoformat, NoCause)]

\* the dict get_database_health starts from (agent.py 377-397)
HealthInfo(now) ==
    [status |-> "healthy",
     timestamp |-> isoformat(utcnow(now)),
     project_id |-> PROJECT_ID,
     instance_id |-> INSTANCE_ID,
     database_id |-> DATABASE_ID,
     connection |-> [status |-> "connected",
                     tested_at |-> isoformat(utcnow(now))],
     performance |-> [last_query_time |-> None,
                      average_query_time |-> 0,
                      total_queries |-> 0],
     resources |-> [cpu_usage |-> "unknown", memory_usage |-> "unknown",
                    storage_usage |-> "unknown"]]

\* the inner except clause of get_database_health (agent.py 407-410)
Unhealthy(health_info, e) ==
    [health_info EXCEPT
        !.status = "unhealthy",
        !.connection = [status |-> "disconnected",
                        tested_at |-> @.tested_at,
                        error |-> str(e)]]

\* SpannerAgent.get_database_health
SpannerAgent_get_database_health(db, now) ==
    LET health_info == HealthInfo(now)
        Probe(result) ==
            IF result.kind = "raise"
            THEN Return(Unhealthy(health_info, result.exc), result.events)
            ELSE LET connected ==
                         [health_info EXCEPT !.connection.status = "connected"]
                     last_query_time == call_isoformat(result.value.timestamp)
                 IN  IF last_query_time.raised
                     THEN Return(Unhealthy(connected, last_query_time.exc),
                                 result.events)
                     ELSE Return(
                              [connected EXCEPT
                                  !.performance.last_query_time =
                                      last_query_time.value,
                                  !.performance.total_queries = @ + 1],
                              result.events)
    IN  Probe(execute_query(test_query, "system", "health_check", db, now))

\* SELECT *
sSELECT_STAR ==
    <<"S","E","L","E","C","T"," ","*">>
\* ORDER BY
sORDER_BY ==
    <<"O","R","D","E","R"," ","B","Y">>
\* LIMIT
sLIMIT ==
    <<"L","I","M","I","T">>
\* LIKE '%pattern%'
sLIKE_BOTH ==
    <<"L","I","K","E"," ","'","%","p","a","t","t","e","r","n","%","'">>
\* LIKE 'pattern%'
sLIKE_PREFIX ==
    <<"L","I","K","E"," ","'","p","a","t","t","e","r","n","%","'">>
\* JOIN
sJOIN ==
    <<"J","O","I","N">>

recSelectStar == "Consider specifying only needed columns instead of SELECT *"
recOrderBy == "Add LIMIT clause when using ORDER BY to improve performance"
recLike == "Consider using indexes for LIKE queries with wildcards"
recJoin == "Ensure proper indexes exist on JOIN columns"

\* the four checks of analyze_query_performance (agent.py 449-471), each
\* with the complexity it assigns when it fires
PerformanceChecks(sql) ==
    LET Checks(text, sql_upper) ==
        <<[fires |-> Contains(sql_upper, sSELECT_STAR),
           recommendation |-> recSelectStar, complexity |-> "medium"],
          [fires |-> Contains(sql_upper, sORDER_BY)
                     /\ ~Contains(sql_upper, sLIMIT),
           recommendation |-> recOrderBy, complexity |-> "medium"],
          [fires |-> Contains(text, sLIKE_BOTH) \/ Contains(text, sLIKE_PREFIX),
           recommendation |-> recLike, complexity |-> "high"],
          [fires |-> Contains(sql_upper, sJOIN),
           recommendation |-> recJoin, complexity |-> "medium"]>>
    IN  Checks(Raw(sql), upper(Raw(sql)))

\* the checks applied in order: the recommendations appended and the
\* complexity last assigned
RECURSIVE ApplyChecks(_, _, _)
ApplyChecks(checks, i, acc) ==
    IF i > Len(checks) THEN acc
    ELSE ApplyChecks(checks, i + 1,
             IF checks[i].fires
             THEN [recommendations |->
                       Append(acc.recommendations, checks[i].recommendation),
                   complexity |-> checks[i].complexity]
             ELSE acc)

\* analyze_query_performance keeping the time of the call in its plan
SpannerAgent_analyze_query_performance_timed(sql, now) ==
    LET Cost(complexity) == IF complexity = "high" THEN "high"
                            ELSE IF complexity = "medium" THEN "medium"
                            ELSE "low"
        Analysis(recommendations, complexity) ==
            Return([sql |-> sql,
                    timestamp |-> isoformat(utcnow(now)),
                    analysis |-> [complexity |-> complexity,
                                  estimated_cost |-> Cost(complexity),
                                  recommendations |-> recommendations],
                    execution_plan |-> now],
                   <<>>)
        Grade(checked, n) ==
            Analysis(checked.recommendations,
                     IF n > 3 THEN "high"
                     ELSE IF n > 1 THEN "medium"
                     ELSE checked.complexity)
        Count(checked) == Grade(checked, Len(checked.recommendations))
    IN  Count(ApplyChecks(PerformanceChecks(sql), 1,
                          [recommendations |-> <<>>, complexity |-> "low"]))

\* SpannerAgent.analyze_query_performance
SpannerAgent_analyze_query_performance(sql, now) ==
    LET Cost(complexity) == IF complexity = "high" THEN "high"
                            ELSE IF complexity = "medium" THEN "medium"
                            ELSE "low"
        Analysis(recommendations, complexity) ==
            Return([sql |-> sql,
                    timestamp |-> isoformat(utcnow(now)),
                    analysis |-> [complexity |-> complexity,
                                  estimated_cost |-> Cost(complexity),
                                  recommendations |-> recommendations],
                    execution_plan |-> None],
                   <<>>)
        Grade(checked, n) ==
            Analysis(checked.recommendations,
                     IF n > 3 THEN "high"
                     ELSE IF n > 1 THEN "medium"
                     ELSE checked.complexity)
        Count(checked) == Grade(checked, Len(checked.recommendations))
    IN  Count(ApplyChecks(PerformanceChecks(sql), 1,
                          [recommendations |-> <<>>, complexity |-> "low"]))

\* Failed to retrieve table statistics for 
msgStatsFailed ==
    <<"F","a","i","l","e","d"," ","t","o"," ","r","e","t","r","i","e","v","e",
      " ","t","a","b","l","e"," ","s","t","a","t","i","s","t","i","c","s"," ",
      "f","o","r"," ">>
\* : 
msgColon ==
    <<":"," ">>

\* the column descriptors of get_table_statistics (agent.py 554-561)
ColumnDetails(data) ==
    [i \in 1..Len(data) |->
        [name |-> data[i]["COLUMN_NAME"],
         type |-> data[i]["SPANNER_TYPE"],
         nullable |-> data[i]["IS_NULLABLE"] = "YES",
         position |-> data[i]["ORDINAL_POSITION"]]]

\* the index descriptors of get_table_statistics (agent.py 564-571)
IndexDetails(data) ==
    [i \in 1..Len(data) |->
        [name |-> data[i]["INDEX_NAME"],
         type |-> data[i]["INDEX_TYPE"],
         unique |-> data[i]["IS_UNIQUE"] = "YES",
         null_filtered |-> data[i]["IS_NULL_FILTERED"] = "YES"]]

\* the except clause of get_table_statistics (agent.py 575-582)
StatsFailure(table_name, e, evs, now) ==
    Return([error |-> msgStatsFailed \o table_name \o msgColon \o str(e),
            table_name |-> table_name,
            timestamp |-> isoformat(utcnow(now))],
           evs)

\* SpannerAgent.get_table_statistics
SpannerAgent_get_table_statistics(table_name, db1, db2, now) ==
    LET Process(columns_result, indexes_result) ==
            IF indexes_result.kind = "raise"
            THEN StatsFailure(table_name, indexes_result.exc,
                     columns_result.events \o indexes_result.events, now)
            ELSE Return(
                     [table_name |-> table_name,
                      timestamp |-> isoformat(utcnow(now)),
                      columns |->
                          [count |-> Len(columns_result.value.data),
                           details |->
                               ColumnDetails(columns_result.value.data)],
                      indexes |->
                          [count |-> Len(indexes_result.value.data),
                           details |->
                               IndexDetails(indexes_result.value.data)],
                      metadata |-> [project_id |-> PROJECT_ID,
                                    instance_id |-> INSTANCE_ID,
                                    database_id |-> DATABASE_ID]],
                     columns_result.events \o indexes_result.events)
        Second(columns_result) ==
            IF columns_result.kind = "raise"
            THEN StatsFailure(table_name, columns_result.exc,
                              columns_result.events, now)
            ELSE Process(columns_result,
                     execute_query(stat_indexes_query(table_name), "system",
                                   "table_stats", db2, now))
    IN  Second(execute_query(columns_query(table_name), "system",
                             "table_stats", db1, now))

---------------------------------------------------------------------------
(* The tool functions handed to the hosting runtime (agent.py 588-687).    *)

\* dataclasses.asdict: the fields of the dataclass as a dict
asdict(obj) == [f \in (DOMAIN obj) \ {"dataclass"} |-> obj[f]]

\* json.dumps(obj, indent=2, default=str): the JSON text that spells obj
json_dumps(obj) == [json |-> obj]

\* Failed to retrieve schema: 
msgToolSchema ==
    <<"F","a","i","l","e","d"," ","t","o"," ","r","e","t","r","i","e","v","e",
      " ","s","c","h","e","m","a",":"," ">>
\* Failed to retrieve health information: 
msgToolHealth ==
    <<"F","a","i","l","e","d"," ","t","o"," ","r","e","t","r","i","e","v","e",
      " ","h","e","a","l","t","h"," ","i","n","f","o","r","m","a","t","i","o",
      "n",":"," ">>
\* Failed to analyze query performance: 
msgToolAnalyze ==
    <<"F","a","i","l","e","d"," ","t","o"," ","a","n","a","l","y","z","e"," ",
      "q","u","e","r","y"," ","p","e","r","f","o","r","m","a","n","c","e",":",
      " ">>
\* Failed to get table statistics: 
msgToolStats ==
    <<"F","a","i","l","e","d"," ","t","o"," ","g","e","t"," ","t","a","b","l",
      "e"," ","s","t","a","t","i","s","t","i","c","s",":"," ">>

\* run_spanner_query without its try/except
run_spanner_query_uncaught(sql, user_id, session_id, db, now) ==
    LET Caught(result) ==
            IF result.kind = "return"
                THEN Return(asdict(result.value), result.events)
                ELSE result
    IN  Caught(execute_query(sql, user_id, session_id, db, now))

\* run_spanner_query
run_spanner_query(sql, user_id, session_id, db, now) ==
    LET Caught(result) ==
            IF result.kind = "return"
                THEN Return(asdict(result.value), result.events)
                ELSE Return([success |-> FALSE,
                             error |-> str(result.exc),
                             timestamp |-> isoformat(utcnow(now)),
                             user_id |-> user_id,
                             session_id |-> session_id],
                            result.events)
    IN  Caught(execute_query(sql, user_id, session_id, db, now))

\* get_spanner_schema
get_spanner_schema(db1, db2, now) ==
    LET Caught(schema_info) ==
            IF schema_info.kind = "return"
                THEN Return(json_dumps(schema_info.value), schema_info.events)
                ELSE Return(json_dumps(
                                [error |-> msgToolSchema \o str(schema_info.exc),
                                 timestamp |-> isoformat(utcnow(now))]),
                            schema_info.events)
    IN  Caught(get_schema_info(db1, db2, now))

\* get_database_health
get_database_health(db, now) ==
    LET Caught(health_info) ==
            IF health_info.kind = "return"
                THEN Return(json_dumps(health_info.value), health_info.events)
                ELSE Return(json_dumps(
                                [error |-> msgToolHealth \o str(health_info.exc),
                                 timestamp |-> isoformat(utcnow(now))]),
                            health_info.events)
    IN  Caught(SpannerAgent_get_database_health(db, now))

\* analyze_query_performance
analyze_query_performance(sql, now) ==
    LET Caught(analysis_result) ==
            IF analysis_result.kind = "return"
                THEN Return(json_dumps(analysis_result.value), analysis_result.events)
                ELSE Return(json_dumps(
                                [error |-> msgToolAnalyze \o str(analysis_result.exc),
                                 timestamp |-> isoformat(utcnow(now))]),
                            analysis_result.events)
    IN  Caught(SpannerAgent_analyze_query_performance(sql, now))

\* get_table_statistics
get_table_statistics(table_name, db1, db2, now) ==
    LET Caught(table_stats) ==
            IF table_stats.kind = "return"
                THEN Return(json_dumps(table_stats.value), table_stats.events)
                ELSE Return(json_dumps(
                                [error |-> msgToolStats \o str(table_stats.exc),
                                 table_name |-> table_name,
                                 timestamp |-> isoformat(utcnow(now))]),
                            table_stats.events)
    IN  Caught(SpannerAgent_get_table_statistics(table_name, db1, db2, now))

---------------------------------------------------------------------------
(* Inputs.                                                                 *)

\* SELECT 1
sqlSelect1 ==
    <<"S","E","L","E","C","T"," ","1">>
\* DROP TABLE users
sqlDropTable ==
    <<"D","R","O","P"," ","T","A","B","L","E"," ","u","s","e","r","s">>
\* SELECT * FROM users ORDER BY id
sqlSelectStar ==
    <<"S","E","L","E","C","T"," ","*"," ","F","R","O","M"," ","u","s","e","r",
      "s"," ","O","R","D","E","R"," ","B","Y"," ","i","d">>
\* select id from users
sqlLowerCase ==
    <<"s","e","l","e","c","t"," ","i","d"," ","f","r","o","m"," ","u","s","e",
      "r","s">>
\* SELECT(1)
sqlSelectParen ==
    <<"S","E","L","E","C","T","(","1",")">>
\* SELECT * FROM t
sqlStarOnly ==
    <<"S","E","L","E","C","T"," ","*"," ","F","R","O","M"," ","t">>
\* SELECT a FROM t WHERE b LIKE 'pattern%'
sqlLikeOnly ==
    <<"S","E","L","E","C","T"," ","a"," ","F","R","O","M"," ","t"," ","W","H",
      "E","R","E"," ","b"," ","L","I","K","E"," ","'","p","a","t","t","e","r",
      "n","%","'">>
\* SELECT * FROM t JOIN u ON t.a = u.a
sqlStarJoin ==
    <<"S","E","L","E","C","T"," ","*"," ","F","R","O","M"," ","t"," ","J","O",
      "I","N"," ","u"," ","O","N"," ","t",".","a"," ","="," ","u",".","a">>
\* SELECT * FROM t JOIN u ON t.a = u.a ORDER BY a
sqlStarJoinOrder ==
    <<"S","E","L","E","C","T"," ","*"," ","F","R","O","M"," ","t"," ","J","O",
      "I","N"," ","u"," ","O","N"," ","t",".","a"," ","="," ","u",".","a"," ",
      "O","R","D","E","R"," ","B","Y"," ","a">>
\* SELECT * FROM t JOIN u ON t.a = u.a WHERE b LIKE '%pattern%' ORDER BY a
sqlAllFour ==
    <<"S","E","L","E","C","T"," ","*"," ","F","R","O","M"," ","t"," ","J","O",
      "I","N"," ","u"," ","O","N"," ","t",".","a"," ","="," ","u",".","a"," ",
      "W","H","E","R","E"," ","b"," ","L","I","K","E"," ","'","%","p","a","t",
      "t","e","r","n","%","'"," ","O","R","D","E","R"," ","B","Y"," ","a">>

\* the statements handed to execute_query and run_spanner_query
SqlInputs ==
    {Sql(sqlSelect1), Sql(sqlDropTable), Sql(sqlSelectStar),
     Sql(sqlLowerCase), Sql(sqlSelectParen)}

\* users
nameUsers ==
    <<"u","s","e","r","s">>
\* users; DROP TABLE users
nameInjection ==
    <<"u","s","e","r","s",";"," ","D","R","O","P"," ","T","A","B","L","E"," ",
      "u","s","e","r","s">>
\* x' OR 'a' = 'a
nameQuote ==
    <<"x","'"," ","O","R"," ","'","a","'"," ","="," ","'","a">>

\* the statements handed to analyze_query_performance: those above and
\* statements that trigger one, two, three and four of its checks
AnalysisInputs ==
    SqlInputs \cup {Sql(sqlStarOnly), Sql(sqlLikeOnly), Sql(sqlStarJoin),
                    Sql(sqlStarJoinOrder), Sql(sqlAllFour)}

\* the table names handed to get_table_statistics
TableNameInputs == {nameUsers, nameInjection, nameQuote}

\* the answers drawn for an operation of two statements: a full result set
\* over two tables, a statement the database refuses, a row stream that
\* breaks at its first row
DbSample ==
    {db \in DbResponses :
        \/ db.fail = "none" /\ Len(db.names) = MaxDbRows
                            /\ db.names[MaxDbRows] = "t2"
        \/ db.fail = "execute_sql" /\ db.error = errSyntax
        \/ db.fail = "rows" /\ db.fail_at = 0}

UserIds == {"default", "alice"}
SessionIds == {"default"}

\* the values SPANNER_MAX_ROWS is given: int() takes any integer
MaxRowsValues == (-1..MaxRowsCap) \cup {DEFAULT_MAX_ROWS}

---------------------------------------------------------------------------
(* The state machine: one action per operation a caller can invoke.        *)

\* SpannerAgent.__init__ (agent.py 147-163): the configuration is read from
\* the environment once
Init ==
    /\ read_only \in BOOLEAN
    /\ max_rows \in MaxRowsValues
    /\ enable_audit \in BOOLEAN
    /\ clock = 0
    /\ call = [op |-> "none"]
    /\ outcome = [kind |-> "none"]
    /\ events = <<>>

\* no operation is in progress
Idle == call.op = "none"

\* what an operation leaves behind
Finish(c, r) ==
    /\ Idle
    /\ call' = c
    /\ outcome' = IF r.kind = "return"
                  THEN [kind |-> "return", value |-> r.value]
                  ELSE [kind |-> "raise", exc |-> r.exc]
    /\ events' = r.events
    /\ UNCHANGED <<read_only, max_rows, enable_audit, clock>>

\* the caller takes the result of the operation
Done ==
    /\ ~Idle
    /\ call' = [op |-> "none"]
    /\ outcome' = [kind |-> "none"]
    /\ events' = <<>>
    /\ UNCHANGED <<read_only, max_rows, enable_audit, clock>>

\* time passes
Tick ==
    /\ Idle
    /\ clock < MaxClock
    /\ clock' = clock + 1
    /\ UNCHANGED <<read_only, max_rows, enable_audit, call, outcome, events>>

ExecuteQuery ==
    \E sql \in SqlInputs, user_id \in UserIds, session_id \in SessionIds,
       db \in DbResponses :
        Finish([op |-> "execute_query", sql |-> sql, user_id |-> user_id,
                session_id |-> session_id, db |-> db],
               execute_query(sql, user_id, session_id, db, clock))

GetSchemaInfo ==
    \E db1 \in DbSample, db2 \in DbSample :
        Finish([op |-> "get_schema_info", db1 |-> db1, db2 |-> db2],
               get_schema_info(db1, db2, clock))

GetDatabaseHealth ==
    \E db \in DbResponses :
        Finish([op |-> "SpannerAgent.get_database_health", db |-> db],
               SpannerAgent_get_database_health(db, clock))

ToolRunSpannerQuery ==
    \E sql \in SqlInputs, user_id \in UserIds, session_id \in SessionIds,
       db \in DbResponses :
        Finish([op |-> "run_spanner_query", sql |-> sql, user_id |-> user_id,
                session_id |-> session_id, db |-> db],
               run_spanner_query(sql, user_id, session_id, db, clock))

ToolGetSpannerSchema ==
    \E db1 \in DbSample, db2 \in DbSample :
        Finish([op |-> "get_spanner_schema", db1 |-> db1, db2 |-> db2],
               get_spanner_schema(db1, db2, clock))

ToolGetDatabaseHealth ==
    \E db \in DbResponses :
        Finish([op |-> "get_database_health", db |-> db],
               get_database_health(db, clock))

ToolAnalyzeQueryPerformance ==
    \E sql \in AnalysisInputs :
        Finish([op |-> "analyze_query_performance", sql |-> sql],
               analyze_query_performance(sql, clock))

ToolGetTableStatistics ==
    \E table_name \in TableNameInputs, db1 \in DbSample,
       db2 \in DbSample :
        Finish([op |-> "get_table_statistics", table_name |-> table_name,
                db1 |-> db1, db2 |-> db2],
               get_table_statistics(table_name, db1, db2, clock))

Next ==
    \/ Tick
    \/ Done
    \/ ExecuteQuery
    \/ GetSchemaInfo
    \/ GetDatabaseHealth
    \/ ToolRunSpannerQuery
    \/ ToolGetSpannerSchema
    \/ ToolGetDatabaseHealth
    \/ ToolAnalyzeQueryPerformance
    \/ ToolGetTableStatistics

Spec == Init /\ [][Next]_vars

---------------------------------------------------------------------------
(* The policy engine on its own: texts assembled from the fragments the    *)
(* rules of validate_query tell apart.                                     *)

\* SELECT 
fSelectSpace ==
    <<"S","E","L","E","C","T"," ">>
\* SELECT a, (SELECT b), 
fTwoSelects ==
    <<"S","E","L","E","C","T"," ","a",","," ","(","S","E","L","E","C","T"," ",
      "b",")",","," ">>
\* drop
fDropLower ==
    <<"d","r","o","p">>
\* sp_help
fSpHelp ==
    <<"s","p","_","h","e","l","p">>
\* UNION ALL SELECT
fUnionAllSelect ==
    <<"U","N","I","O","N"," ","A","L","L"," ","S","E","L","E","C","T">>
\* INFORMATION_SCHEMA.TABLES
fSchemaTables ==
    <<"I","N","F","O","R","M","A","T","I","O","N","_","S","C","H","E","M","A",
      ".","T","A","B","L","E","S">>

Fragments ==
    {kSELECT, fTwoSelects, fDropLower, fSpHelp, fUnionAllSelect,
     fSchemaTables, <<" ">>, <<"\n">>, <<"*">>, <<"(">>, <<"x">>, <<";">>,
     <<"-", "-">>, <<"/", "*">>, <<"*", "/">>}

\* a text opens with nothing or with "SELECT "
Openings == {<<>>, fSelectSpace}

RECURSIVE Flatten(_)
Flatten(parts) ==
    IF parts = <<>> THEN <<>> ELSE Head(parts) \o Flatten(Tail(parts))

Texts ==
    {opening \o Flatten(p) :
        opening \in Openings,
        p \in UNION {[1..n -> Fragments] : n \in 0..MaxAtoms}}

\* the paddings drawn for a text: none, and those that bring it to the
\* length limit and one character past it
Paddings(chars) ==
    {0, MAX_QUERY_LENGTH - Len(chars), MAX_QUERY_LENGTH - Len(chars) + 1}

InitValidator ==
    /\ read_only \in BOOLEAN
    /\ max_rows = DEFAULT_MAX_ROWS
    /\ enable_audit = TRUE
    /\ clock = 0
    /\ call = [op |-> "none"]
    /\ outcome = [kind |-> "none"]
    /\ events = <<>>

ValidateQuery ==
    \E chars \in Texts : \E pad \in Paddings(chars) :
        LET sql == [body |-> chars, pad |-> pad]
        IN  Finish([op |-> "validate_query", sql |-> sql],
                   Return(validate_query(sql,
                              _create_security_context("default", "default")),
                          <<>>))

NextValidator == ValidateQuery

SpecValidator == InitValidator /\ [][NextValidator]_vars

---------------------------------------------------------------------------
(* What the last operation did, read from its trace.                       *)

IsDbEvent(e) ==
    e.ev \in {"snapshot_enter", "execute_sql", "next_row", "snapshot_exit"}

\* the positions of the trace at which the database was contacted
DbPositions == {i \in 1..Len(events) : IsDbEvent(events[i])}

\* a call to the database raised
DbRaised == \E i \in DbPositions : events[i].raised

\* the policy engine rejected a statement
PolicyRejected ==
    \E i \in 1..Len(events) :
        events[i].ev = "validate_query" /\ ~events[i].is_valid

IsAudit(e) == e.ev = "audit"

\* the audit events of the operation, in order, and their types
AuditEntries == SelectSeq(events, IsAudit)
AuditTypes == [i \in 1..Len(AuditEntries) |-> AuditEntries[i].entry.event_type]

\* statement sql went to execute_sql
SentToDatabase(sql) ==
    \E i \in 1..Len(events) : events[i].ev = "execute_sql" /\ events[i].sql = sql

\* the policy engine accepted sql under this agent's context before
\* position i of the trace
AcceptedBefore(sql, i) ==
    \E j \in 1..(i - 1) :
        /\ events[j].ev = "validate_query"
        /\ events[j].is_valid
        /\ events[j].sql = sql
        /\ events[j].read_only = read_only

\* the audit events emitted before position i of the trace
AuditedBefore(i) ==
    SelectSeq(SubSeq(events, 1, i - 1), IsAudit)

---------------------------------------------------------------------------
(* C1 as stated: in every execute_query call the database is contacted     *)
(* only after validate_query accepted the same SQL text under the call's   *)
(* SecurityContext and after one audit event, query_execution_start, was   *)
(* emitted; on rejection a query_rejected event is emitted, a validation   *)
(* error is raised and the database is never contacted.  It fails when     *)
(* ENABLE_AUDIT_LOGGING is off: _audit_log then emits nothing.             *)
C1_AsClaimed ==
    call.op = "execute_query" =>
        /\ \A i \in DbPositions :
               /\ AcceptedBefore(call.sql, i)
               /\ Len(AuditedBefore(i)) = 1
               /\ AuditedBefore(i)[1].entry.event_type = evStart
        /\ PolicyRejected =>
               /\ AuditTypes = <<evRejected>>
               /\ outcome.kind = "raise"
               /\ outcome.exc.type = "ValueError"
               /\ DbPositions = {}

(* C1, amended: the database is contacted only after validate_query        *)
(* accepted the same SQL text under the call's SecurityContext; when audit *)
(* logging is enabled exactly one audit event, query_execution_start, is   *)
(* emitted before the first contact, and a rejection emits exactly         *)
(* query_rejected; when it is disabled no audit event is emitted.  In both *)
(* cases a rejection raises a validation error and never contacts the      *)
(* database.                                                               *)
C1_ValidatedThenAudited ==
    call.op = "execute_query" =>
        /\ \A i \in DbPositions :
               /\ AcceptedBefore(call.sql, i)
               /\ events[i].sql = call.sql
               /\ IF enable_audit
                  THEN /\ Len(AuditedBefore(i)) = 1
                       /\ AuditedBefore(i)[1].entry.event_type = evStart
                       /\ AuditedBefore(i)[1].entry.sql = call.sql
                  ELSE AuditedBefore(i) = <<>>
        /\ PolicyRejected =>
               /\ AuditTypes = IF enable_audit THEN <<evRejected>> ELSE <<>>
               /\ outcome.kind = "raise"
               /\ outcome.exc.type = "ValueError"
               /\ DbPositions = {}

\* an accepted statement reached the database, with audit logging enabled
C1_Witness ==
    /\ call.op = "execute_query"
    /\ enable_audit
    /\ SentToDatabase(call.sql)
    /\ ~PolicyRejected

---------------------------------------------------------------------------
(* C2 as stated: a QueryResult returned by execute_query with success =    *)
(* true has row_count <= maxRows and row_count = len(data), for every      *)
(* configured maxRows.  It fails for a negative SPANNER_MAX_ROWS, which    *)
(* int() accepts: the result is empty and 0 > maxRows.                     *)
C2_AsClaimed ==
    (/\ call.op = "execute_query"
     /\ outcome.kind = "return"
     /\ outcome.value.success)
    => /\ outcome.value.row_count <= max_rows
       /\ outcome.value.row_count = Len(outcome.value.data)

(* C2, amended: for every configured maxRows = N >= 0 a successful         *)
(* QueryResult has row_count <= N and row_count = len(data); for N < 0 it  *)
(* is empty, row_count = 0 = len(data).                                    *)
C2_RowCap ==
    (/\ call.op = "execute_query"
     /\ outcome.kind = "return"
     /\ outcome.value.success)
    => /\ outcome.value.row_count = Len(outcome.value.data)
       /\ max_rows >= 0 => outcome.value.row_count <= max_rows
       /\ max_rows < 0 => outcome.value.row_count = 0

\* a result set larger than the cap came back cut to the cap
C2_Witness ==
    /\ call.op = "execute_query"
    /\ outcome.kind = "return"
    /\ max_rows >= 1
    /\ Len(call.db.names) > max_rows
    /\ outcome.value.row_count = max_rows

---------------------------------------------------------------------------
(* C3 as stated: every call to execute_query, accepted or rejected,        *)
(* succeeding or failing, produces exactly one audit event.  It fails: an  *)
(* accepted call emits two (start, then success or error), and a call with *)
(* audit logging disabled emits none.                                      *)
C3_AsClaimed ==
    call.op = "execute_query" => Len(AuditEntries) = 1

(* C3, amended: with audit logging enabled a rejected call produces        *)
(* exactly one audit event (query_rejected) and an accepted call exactly   *)
(* two, query_execution_start followed by query_execution_success when it  *)
(* returns or query_execution_error when the database call fails, all      *)
(* before it returns or raises; with audit logging disabled a call         *)
(* produces none.                                                          *)
C3_AuditTrail ==
    call.op = "execute_query" =>
        AuditTypes =
            IF ~enable_audit THEN <<>>
            ELSE IF PolicyRejected THEN <<evRejected>>
            ELSE IF outcome.kind = "raise" THEN <<evStart, evError>>
            ELSE <<evStart, evSuccess>>

\* an accepted call whose database call failed left two audit events
C3_Witness ==
    /\ call.op = "execute_query"
    /\ enable_audit
    /\ DbRaised
    /\ Len(AuditEntries) = 2

---------------------------------------------------------------------------
(* C4 and C5: what the claims call a denylisted keyword or pattern, read   *)
(* off the text without the code's regular expressions.                    *)

ClaimKeywords ==
    {kDELETE, kDROP, kTRUNCATE, kALTER, kCREATE, kINSERT, kUPDATE, kGRANT,
     kREVOKE, kEXEC, kEXECUTE}

\* a keyword as a word of its own, in any letter case
HasKeyword(text) == SearchWords(text, ClaimKeywords)

\* sp_ or xp_ opening an identifier, however long
HasProcedurePrefix(text) ==
    \E i \in 1..Len(text) :
        /\ WordBoundary(text, i)
        /\ LitAtNoCase(text, i, k_sp) \/ LitAtNoCase(text, i, k_xp)

\* a block comment, on one line or over several
HasBlockComment(text) ==
    \E i \in 1..Len(text) : \E j \in (i + 2)..Len(text) :
        LitAt(text, i, <<"/", "*">>) /\ LitAt(text, j, <<"*", "/">>)

\* a ';' with nothing but whitespace after it
HasTrailingSemicolon(text) ==
    LET s == strip(text) IN Len(s) >= 1 /\ s[Len(s)] = ";"

ClaimDenylisted(sql) ==
    LET text == sql.body
    IN  \/ HasKeyword(text)
        \/ HasProcedurePrefix(text)
        \/ Contains(text, <<"-", "-">>)
        \/ HasBlockComment(text)
        \/ HasTrailingSemicolon(text)
        \/ MatchUnion(text)
        \/ MatchSchemaEnum(text)

(* C4 as stated: validate_query rejects every SQL text that contains a     *)
(* denylisted keyword or pattern, in any letter case and at any position,  *)
(* a block comment over several lines and an sp_/xp_ prefix of a longer    *)
(* identifier included, for read_only = true and for read_only = false.    *)
C4_AsClaimed ==
    (call.op = "validate_query" /\ ClaimDenylisted(call.sql))
    => outcome.value[1] = FALSE

\* the leading keyword of the text, after leading whitespace, is SELECT
LeadingSelect(sql) ==
    LET s == UpperStrip(sql)
    IN  LitAt(s, 1, kSELECT) /\ WordBoundary(s, Len(kSELECT) + 1)

(* C5 as stated: with read_only = true, validate_query accepts every SQL   *)
(* text whose leading keyword is SELECT, that contains no denylisted       *)
(* pattern, has at most 3 occurrences of SELECT and at most 10,000         *)
(* characters, whatever character follows the leading SELECT.              *)
C5_AsClaimed ==
    (/\ call.op = "validate_query"
     /\ read_only
     /\ LeadingSelect(call.sql)
     /\ ~ClaimDenylisted(call.sql)
     /\ DangerousHits(UpperStrip(call.sql)) = {}
     /\ count(UpperStrip(call.sql), kSELECT) <= MAX_SELECT_COUNT
     /\ len(call.sql) <= MAX_QUERY_LENGTH)
    => outcome.value[1] = TRUE

---------------------------------------------------------------------------
(* C6 as stated: get_table_statistics interpolates the table name          *)
(* unescaped into its two introspection statements, and for every table    *)
(* name the statements are not rejected by the policy engine and are       *)
(* passed through to the database (the second once the first was           *)
(* answered).                                                              *)
C6_AsClaimed ==
    call.op = "get_table_statistics" =>
        LET first == columns_query(call.table_name)
            second == stat_indexes_query(call.table_name)
        IN  /\ Contains(first.body, call.table_name)
            /\ Contains(second.body, call.table_name)
            /\ ~PolicyRejected
            /\ SentToDatabase(first)
            /\ call.db1.fail = "none" => SentToDatabase(second)

---------------------------------------------------------------------------
(* C7 as stated: the health probe runs SELECT 1 through execute_query and  *)
(* reports "healthy" whenever that execution succeeds and "unhealthy" with *)
(* the captured error string whenever it does not; it always returns a     *)
(* status structure and never raises.                                      *)

\* the status structure of the last health probe
HealthStatus ==
    IF call.op = "get_database_health" THEN outcome.value.json
    ELSE outcome.value

C7_AsClaimed ==
    call.op \in {"SpannerAgent.get_database_health", "get_database_health"} =>
        /\ outcome.kind = "return"
        /\ \E i \in 1..Len(events) :
               events[i].ev = "validate_query" /\ events[i].sql = test_query
        /\ IF ~PolicyRejected /\ ~DbRaised
           THEN HealthStatus.status = "healthy"
           ELSE /\ HealthStatus.status = "unhealthy"
                /\ "error" \in DOMAIN HealthStatus.connection
                /\ HealthStatus.connection.error = msgExecFailed \o call.db.error

---------------------------------------------------------------------------
(* C8 as stated: schema introspection issues its two fixed statements      *)
(* through execute_query, and whenever the database answers both it        *)
(* returns the nested structure with total_tables = the number of distinct *)
(* table names in the column rows, total_columns = the number of column    *)
(* rows and total_indexes = the number of index rows.                      *)

\* the number of rows execute_query returns of n
Capped(n) == IF max_rows < 0 THEN 0 ELSE IF n < max_rows THEN n ELSE max_rows

C8_AsClaimed ==
    call.op = "get_schema_info" =>
        /\ \E i \in 1..Len(events) :
               events[i].ev = "validate_query" /\ events[i].sql = tables_query
        /\ (call.db1.fail = "none" /\ call.db2.fail = "none") =>
               /\ SentToDatabase(tables_query)
               /\ SentToDatabase(indexes_query)
               /\ outcome.kind = "return"
               /\ outcome.value.metadata.total_columns
                      = Capped(Len(call.db1.names))
               /\ outcome.value.metadata.total_tables
                      = Cardinality({call.db1.names[i] :
                                        i \in 1..Capped(Len(call.db1.names))})
               /\ outcome.value.metadata.total_indexes
                      = Capped(Len(call.db2.names))

---------------------------------------------------------------------------
(* C9 as stated: when the database call fails during execute_query, a      *)
(* query_execution_error audit event carrying the failure detail is        *)
(* emitted and a wrapped execution error is raised whose message includes  *)
(* the original SQL text and an execution-failure marker, with the         *)
(* underlying exception as its direct cause.  It fails: the message is     *)
(* built from the marker and the underlying exception only.                *)
C9_AsClaimed ==
    (call.op = "execute_query" /\ DbRaised) =>
        /\ \E i \in 1..Len(AuditEntries) :
               /\ AuditEntries[i].entry.event_type = evError
               /\ Contains(AuditEntries[i].entry.details, call.db.error)
        /\ outcome.kind = "raise"
        /\ Contains(outcome.exc.msg, Raw(call.sql))
        /\ Contains(outcome.exc.msg, msgExecFailed)
        /\ outcome.exc.cause = DbError(call.db)

(* C9, amended: when the database call fails during execute_query, a       *)
(* RuntimeError is raised whose message is the execution-failure marker    *)
(* "Query execution failed: " followed by the text of the underlying       *)
(* exception (the SQL text is not put into the message), with the          *)
(* underlying exception as its direct cause; when audit logging is enabled *)
(* a query_execution_error audit event carrying the SQL text and that      *)
(* message is emitted last, and when it is disabled none is.               *)
C9_ExecutionFailure ==
    (call.op = "execute_query" /\ DbRaised) =>
        /\ outcome.kind = "raise"
        /\ outcome.exc.type = "RuntimeError"
        /\ outcome.exc.msg = msgExecFailed \o call.db.error
        /\ outcome.exc.cause = DbError(call.db)
        /\ IF enable_audit
           THEN LET last == AuditEntries[Len(AuditEntries)].entry
                IN  /\ last.event_type = evError
                    /\ last.sql = call.sql
                    /\ last.details = outcome.exc.msg
           ELSE AuditEntries = <<>>

\* the row stream of an accepted statement broke and the error was raised
C9_Witness ==
    /\ call.op = "execute_query"
    /\ DbRaised
    /\ call.db.fail = "rows"
    /\ enable_audit
    /\ outcome.kind = "raise"

---------------------------------------------------------------------------
(* C10: no exception crosses the caller-facing surface: each of the five   *)
(* tool functions returns a value for every input and every database       *)
(* outcome, and the value is error-shaped (run_spanner_query: success =    *)
(* false with an error string) whenever validation rejects or the          *)
(* underlying operation fails.                                             *)

ToolOps ==
    {"run_spanner_query", "get_spanner_schema", "get_database_health",
     "analyze_query_performance", "get_table_statistics"}

\* the value the tool returned carries an error
ErrorShaped ==
    CASE call.op = "run_spanner_query" ->
             /\ outcome.value.success = FALSE
             /\ Len(outcome.value.error) > 0
      [] call.op \in {"get_spanner_schema", "get_table_statistics"} ->
             /\ "error" \in DOMAIN outcome.value.json
             /\ Len(outcome.value.json.error) > 0
      [] call.op = "get_database_health" ->
             /\ outcome.value.json.status = "unhealthy"
             /\ "error" \in DOMAIN outcome.value.json.connection
             /\ Len(outcome.value.json.connection.error) > 0
      [] OTHER -> FALSE

C10_NoExceptionCrosses ==
    call.op \in ToolOps =>
        /\ outcome.kind = "return"
        /\ (PolicyRejected \/ DbRaised) => ErrorShaped

\* a tool turned an exception of execute_query into an error value
C10_Witness ==
    /\ call.op = "run_spanner_query"
    /\ DbRaised
    /\ outcome.kind = "return"
    /\ outcome.value.success = FALSE

---------------------------------------------------------------------------
(* C11: the snapshot opened by an execute_query call is released on every  *)
(* exit path of that call (normal completion, row-limit truncation,        *)
(* exception from execute_sql or from row iteration) and before the call   *)
(* returns or raises: no snapshot is still open after the call has ended.  *)

\* the snapshots opened and not yet released after position i of the trace
SnapshotsOpenAfter(i) ==
    Cardinality({j \in 1..i :
                    events[j].ev = "snapshot_enter" /\ ~events[j].raised})
    - Cardinality({j \in 1..i : events[j].ev = "snapshot_exit"})

C11_SnapshotReleased ==
    call.op # "none" =>
        /\ \A i \in 1..Len(events) : SnapshotsOpenAfter(i) \in {0, 1}
        /\ SnapshotsOpenAfter(Len(events)) = 0
        /\ \A i \in 1..Len(events) :
               events[i].ev \in {"execute_sql", "next_row"}
                   => SnapshotsOpenAfter(i) = 1

\* the row stream broke inside an open snapshot, and the snapshot was
\* released before the error was raised
C11_Witness ==
    /\ call.op = "execute_query"
    /\ outcome.kind = "raise"
    /\ \E i \in 1..Len(events) :
           /\ events[i].ev = "next_row" /\ events[i].raised
           /\ SnapshotsOpenAfter(i) = 1
           /\ \E j \in (i + 1)..Len(events) : events[j].ev = "snapshot_exit"

---------------------------------------------------------------------------
(* C12 as stated: while streaming result rows, execute_query stops         *)
(* consuming as soon as the number of materialized rows reaches maxRows:   *)
(* it never pulls more than maxRows rows from the row stream, even when    *)
(* more rows remain, and the truncated call still returns success = true   *)
(* with the first maxRows rows in stream order.                            *)

\* the rows the call took from the row stream
RowsPulled ==
    Cardinality({i \in 1..Len(events) :
                    /\ events[i].ev = "next_row"
                    /\ ~events[i].raised
                    /\ events[i].row > 0})

\* the cap is positive, the stream holds more rows than the cap and hands
\* out the first max_rows of them without failing
MoreRowsRemain ==
    /\ max_rows >= 1
    /\ Len(call.db.names) > max_rows
    /\ \/ call.db.fail = "none"
       \/ call.db.fail = "rows" /\ call.db.fail_at >= max_rows

C12_AsClaimed ==
    (call.op = "execute_query" /\ ~PolicyRejected) =>
        /\ max_rows >= 1 => RowsPulled <= max_rows
        /\ MoreRowsRemain =>
               /\ outcome.kind = "return"
               /\ outcome.value.success
               /\ outcome.value.data =
                      [i \in 1..max_rows |->
                          DictZip(FieldNames(call.sql),
                                  ResultSet(call.sql, call.db).rows[i])]

---------------------------------------------------------------------------
(* C13: a failed execution is reported once and never retried: within one  *)
(* execute_query call the statement is validated once and sent to the      *)
(* database at most once, at most one snapshot is opened, and after a      *)
(* database call raises no further database call is made and one error is  *)
(* raised to the caller; a rejected query is never validated again or      *)
(* submitted.                                                              *)

\* how many events of kind ev the trace holds
CountEvents(ev) ==
    Cardinality({i \in 1..Len(events) : events[i].ev = ev})

\* a request made to the database: opening a snapshot, sending a statement,
\* pulling a row
IsDbCall(e) == e.ev \in {"snapshot_enter", "execute_sql", "next_row"}

C13_NoRetry ==
    call.op = "execute_query" =>
        /\ CountEvents("validate_query") = 1
        /\ CountEvents("snapshot_enter") <= 1
        /\ CountEvents("execute_sql") <= 1
        /\ \A i \in DbPositions :
               events[i].raised =>
                   /\ \A j \in (i + 1)..Len(events) : ~IsDbCall(events[j])
                   /\ outcome.kind = "raise"
                   /\ outcome.exc.type = "RuntimeError"
        /\ PolicyRejected =>
               /\ DbPositions = {}
               /\ outcome.kind = "raise"
               /\ outcome.exc.type = "ValueError"

\* the database refused the statement: it was sent once and the error raised
C13_Witness ==
    /\ call.op = "execute_query"
    /\ call.db.fail = "execute_sql"
    /\ CountEvents("execute_sql") = 1
    /\ events[CHOOSE i \in 1..Len(events) : events[i].ev = "execute_sql"].raised
    /\ outcome.kind = "raise"

---------------------------------------------------------------------------
(* C14 as stated: analyze_query_performance is idempotent and pure:        *)
(* calling it twice on the same SQL text yields identical output, every    *)
(* field of the returned structure being a function of the input text      *)
(* only, and no call touches the database or emits an audit event.  It     *)
(* fails: the structure carries the time of the call.                      *)

\* the instants a second call can be made at
Instants == 0..MaxClock

C14_AsClaimed ==
    call.op = "analyze_query_performance" =>
        /\ events = <<>>
        /\ \A now \in Instants :
               analyze_query_performance(call.sql, now).value = outcome.value

\* a dict without its timestamp entry
WithoutTimestamp(d) == [k \in (DOMAIN d) \ {"timestamp"} |-> d[k]]

(* C14, amended: calling analyze_query_performance twice on the same SQL   *)
(* text yields output identical in every field except timestamp, which is  *)
(* the wall-clock time of the call; the other fields are a function of the *)
(* input text only, and no call touches the database or emits an audit     *)
(* event.                                                                  *)
C14_SameButTimestamp ==
    call.op = "analyze_query_performance" =>
        /\ events = <<>>
        /\ outcome.kind = "return"
        /\ outcome.value.json.timestamp = isoformat(utcnow(clock))
        /\ \A now \in Instants :
               WithoutTimestamp(
                   analyze_query_performance(call.sql, now).value.json)
               = WithoutTimestamp(outcome.value.json)

\* a statement with recommendations was analyzed after the clock moved on
C14_Witness ==
    /\ call.op = "analyze_query_performance"
    /\ clock > 0
    /\ outcome.value.json.analysis.recommendations # <<>>

---------------------------------------------------------------------------
(* C15 as stated: the advisor's complexity rating (low / medium / high),   *)
(* and the estimated cost equal to it, is derived from the count of        *)
(* recommendations triggered among the four checks: any two texts that     *)
(* trigger the same number of recommendations receive the same rating, and *)
(* a text that triggers more recommendations never receives a lower        *)
(* rating.                                                                 *)

\* low < medium < high
Rank(rating) ==
    CASE rating = "low" -> 0
      [] rating = "medium" -> 1
      [] rating = "high" -> 2

\* the analysis part of what the advisor returns for sql
AnalysisOf(sql) == analyze_query_performance(sql, clock).value.json.analysis

C15_AsClaimed ==
    call.op = "analyze_query_performance" =>
        LET mine == outcome.value.json.analysis
        IN  /\ mine.complexity \in {"low", "medium", "high"}
            /\ mine.estimated_cost = mine.complexity
            /\ \A other \in AnalysisInputs :
                   LET theirs == AnalysisOf(other)
                   IN  /\ Len(theirs.recommendations)
                              = Len(mine.recommendations)
                          => theirs.complexity = mine.complexity
                       /\ Len(theirs.recommendations)
                              > Len(mine.recommendations)
                          => Rank(theirs.complexity) >= Rank(mine.complexity)

---------------------------------------------------------------------------
(* C16: validate_query applies its four rules in the fixed order           *)
(* forbidden-construct scan, read-only shape gate, complexity gate (more   *)
(* than 3 SELECT), length gate (more than 10,000 characters); it rejects   *)
(* exactly when at least one rule fires and reports the reason of the      *)
(* first rule in that order that fires; every text longer than 10,000      *)
(* characters is rejected whatever its content, with the length reason     *)
(* when no earlier rule fires.                                             *)

\* the four rules, each on its own
ForbiddenFires(sql) == DangerousHits(UpperStrip(sql)) # {}
ReadOnlyFires(sql) ==
    /\ read_only
    /\ \A n \in 1..Len(ALLOWED_PATTERNS) :
           ~MatchLeading(UpperStrip(sql), ALLOWED_PATTERNS[n])
ComplexityFires(sql) == count(UpperStrip(sql), kSELECT) > MAX_SELECT_COUNT
LengthFires(sql) == len(sql) > MAX_QUERY_LENGTH

\* the reason of the forbidden-construct scan: the first pattern, in the
\* order of the list, that the text matches
ForbiddenReason(sql) ==
    LET hits == DangerousHits(UpperStrip(sql))
    IN  msgForbidden
        \o DANGEROUS_PATTERNS[CHOOSE n \in hits : \A m \in hits : n <= m]

C16_FirstRuleWins ==
    call.op = "validate_query" =>
        LET sql == call.sql
            is_valid == outcome.value[1]
            error_message == outcome.value[2]
        IN  /\ is_valid = ~(\/ ForbiddenFires(sql) \/ ReadOnlyFires(sql)
                            \/ ComplexityFires(sql) \/ LengthFires(sql))
            /\ is_valid => error_message = <<>>
            /\ ForbiddenFires(sql) => error_message = ForbiddenReason(sql)
            /\ (~ForbiddenFires(sql) /\ ReadOnlyFires(sql))
                   => error_message = msgReadOnly
            /\ (/\ ~ForbiddenFires(sql) /\ ~ReadOnlyFires(sql)
                /\ ComplexityFires(sql))
                   => error_message = msgTooComplex
            /\ (/\ ~ForbiddenFires(sql) /\ ~ReadOnlyFires(sql)
                /\ ~ComplexityFires(sql) /\ LengthFires(sql))
                   => error_message = msgTooLong
            /\ LengthFires(sql) => ~is_valid

\* a text of 10,001 characters that no other rule objects to was rejected
\* for its length
C16_Witness ==
    /\ call.op = "validate_query"
    /\ len(call.sql) = MAX_QUERY_LENGTH + 1
    /\ ~ForbiddenFires(call.sql)
    /\ ~ReadOnlyFires(call.sql)
    /\ ~ComplexityFires(call.sql)
    /\ outcome.value = <<FALSE, msgTooLong>>

=============================================================================
